---- MODULE Spec2Model ----
(***************************************************************************)
(* Model of app.py of the Legal Contract Intelligence prototype: the text  *)
(* normaliser, the clause segmenter, the keyword classifier, the risk      *)
(* scorer, the extractive summariser, the compliance checklist and the     *)
(* lazily created external summariser handle.                              *)
(*                                                                         *)
(* A Python str is a sequence of code points (integers); a list is a       *)
(* sequence; a dict is a function whose DOMAIN is the set of its keys.     *)
(***************************************************************************)
EXTENDS Integers, Sequences, FiniteSets

(***************************************************************************)
(* Bounds of the model.                                                    *)
(***************************************************************************)
MaxNormLen == 4      \* longest extracted text of SpecNorm, in characters
MaxSegToks == 4      \* longest text of SpecSeg, in tokens of SegTokens
MaxSumToks == 5      \* longest text of SpecSum, in tokens of SumTokens
MaxN       == 2      \* largest sentence count asked of simple_summary in SpecSum
MaxParas   == 2      \* most paragraphs of an uploaded document in SpecApp
MaxCalls   == 4      \* most hf_summarize calls of one process in SpecHF

(***************************************************************************)
(* Characters.                                                             *)
(***************************************************************************)
\* str.isspace() and the regex class \s over the code points below 128
SpaceChars == {9, 10, 11, 12, 13, 28, 29, 30, 31, 32}
UpperChars == 65..90                     \* [A-Z]
LowerChars == 97..122                    \* [a-z]
DigitChars == 48..57                     \* \d over the code points below 128
WordChars  == UpperChars \cup LowerChars \cup DigitChars \cup {95}    \* \w
HeadingChars == UpperChars \cup LowerChars \cup SpaceChars     \* [A-Za-z\s]
SentenceEnd == {46, 33, 63}              \* [.!?]
NL    == 10
SPACE == 32
COLON == 58
DASH  == 45
DOT   == 46
QUOTE == 34
AsciiMax == 127                          \* \x7F

\* str.lower() on one character
LowerChar(c) == IF c \in UpperChars THEN c + 32 ELSE c

\* str.lower()
lower(s) == [i \in 1..Len(s) |-> LowerChar(s[i])]

\* the least element of a non-empty set of integers
Least(S) == CHOOSE m \in S : \A x \in S : m <= x

\* first index j >= i of s whose character is outside class C, Len(s)+1 if none:
\* the end of a greedy run C* that starts at i
RunEnd(s, i, C) ==
    IF i > Len(s) THEN i
    ELSE Least({j \in i..Len(s) : s[j] \notin C} \cup {Len(s) + 1})

\* first index j >= i of s whose character is inside class C, Len(s)+1 if none:
\* the end of a greedy run [^C]* that starts at i
RunEndNot(s, i, C) ==
    IF i > Len(s) THEN i
    ELSE Least({j \in i..Len(s) : s[j] \in C} \cup {Len(s) + 1})

\* str.strip()
\* the index of the last non-space character of s, 0 if there is none
LastNonSpace(s) ==
    -Least({-j : j \in {k \in 1..Len(s) : s[k] \notin SpaceChars}} \cup {0})

strip(s) == SubSeq(s, RunEnd(s, 1, SpaceChars), LastNonSpace(s))

\* needle in hay
Contains(hay, needle) ==
    \E i \in 1..(Len(hay) - Len(needle) + 1) :
        \A k \in 1..Len(needle) : hay[i + k - 1] = needle[k]

\* sep.join(parts)
RECURSIVE join(_, _)
join(sep, parts) ==
    IF parts = <<>> THEN <<>>
    ELSE IF Len(parts) = 1 THEN parts[1]
    ELSE parts[1] \o sep \o join(sep, Tail(parts))

\* str.split(): the maximal runs of non-space characters
RECURSIVE split_ws(_, _)
split_ws(s, i) ==
    LET b == RunEnd(s, i, SpaceChars)
        e == RunEndNot(s, b, SpaceChars)
    IN  IF b > Len(s) THEN <<>> ELSE <<SubSeq(s, b, e - 1)>> \o split_ws(s, e)

\* re.findall(r'\w+', s)
RECURSIVE findall_words(_, _)
findall_words(s, i) ==
    LET b == RunEndNot(s, i, WordChars)
        e == RunEnd(s, b, WordChars)
    IN  IF b > Len(s) THEN <<>> ELSE <<SubSeq(s, b, e - 1)>> \o findall_words(s, e)

(***************************************************************************)
(* The regular expressions.  Each XxxEnd(s, i) is the index just after the *)
(* match of the pattern that starts at index i of s, or 0 if the pattern   *)
(* does not match at i.                                                    *)
(***************************************************************************)
\* \n{2,}
BlankLineEnd(s, i) ==
    IF i + 1 <= Len(s) /\ s[i] = NL /\ s[i + 1] = NL THEN RunEnd(s, i, {NL}) ELSE 0

\* (?<=[.!?])\s+
SentenceGapEnd(s, i) ==
    IF i > 1 /\ s[i - 1] \in SentenceEnd /\ s[i] \in SpaceChars
    THEN RunEnd(s, i, SpaceChars) ELSE 0

HeadingMax == 50
SectionWord == <<83, 101, 99, 116, 105, 111, 110>>      \* "Section"

\* [A-Z][A-Za-z\s]{1,50}:   (':' is outside the class, so the run before it
\* is the whole run of class characters, and it is 1 to 50 long)
TitleHeadingEnd(s, i) ==
    LET j == RunEnd(s, i + 1, HeadingChars)
    IN  IF /\ s[i] \in UpperChars
           /\ j - (i + 1) >= 1
           /\ j - (i + 1) <= HeadingMax
           /\ j <= Len(s)
           /\ s[j] = COLON
        THEN j + 1 ELSE 0

\* Section\s+\d+\.?\d*\s*[:\-]?
SectionHeadingEnd(s, i) ==
    LET j1 == RunEnd(s, i + 7, SpaceChars)
        j2 == RunEnd(s, j1, DigitChars)
        j3 == IF j2 <= Len(s) /\ s[j2] = DOT THEN j2 + 1 ELSE j2
        j4 == RunEnd(s, j3, DigitChars)
        j5 == RunEnd(s, j4, SpaceChars)
        j6 == IF j5 <= Len(s) /\ s[j5] \in {COLON, DASH} THEN j5 + 1 ELSE j5
    IN  IF /\ i + 6 <= Len(s)
           /\ SubSeq(s, i, i + 6) = SectionWord
           /\ j1 > i + 7
           /\ j2 > j1
        THEN j6 ELSE 0

\* (?m)^(?:[A-Z][A-Za-z\s]{1,50}:|Section\s+\d+\.?\d*\s*[:\-]?)
HeadingEnd(s, i) ==
    IF i = 1 \/ s[i - 1] = NL
    THEN IF TitleHeadingEnd(s, i) # 0 THEN TitleHeadingEnd(s, i)
         ELSE SectionHeadingEnd(s, i)
    ELSE 0

\* [^\x00-\x7F]+
NonAsciiEnd(s, i) ==
    IF s[i] > AsciiMax THEN RunEndNot(s, i, 0..AsciiMax) ELSE 0

MatchEnd(pattern, s, i) ==
    CASE pattern = "blank_line" -> BlankLineEnd(s, i)
      [] pattern = "sentence_gap" -> SentenceGapEnd(s, i)
      [] pattern = "heading" -> HeadingEnd(s, i)
      [] pattern = "non_ascii" -> NonAsciiEnd(s, i)

\* where the leftmost match of pattern at or after index from starts,
\* Len(s)+1 if there is none
NextMatch(pattern, s, from) ==
    Least({i \in from..Len(s) : MatchEnd(pattern, s, i) # 0} \cup {Len(s) + 1})

\* re.split(pattern, s) from index from on: the piece up to the next match,
\* then the pieces after that match (no pattern here matches the empty string)
RECURSIVE re_split_from(_, _, _)
re_split_from(pattern, s, from) ==
    LET i == NextMatch(pattern, s, from)
    IN  IF i > Len(s) THEN <<SubSeq(s, from, Len(s))>>
        ELSE <<SubSeq(s, from, i - 1)>> \o re_split_from(pattern, s, MatchEnd(pattern, s, i))

re_split(pattern, s) == re_split_from(pattern, s, 1)

\* re.sub(pattern, repl, s): the pieces between the matches, with repl in
\* place of every match
re_sub(pattern, repl, s) == join(repl, re_split(pattern, s))

(***************************************************************************)
(* clean_text                                                              *)
(***************************************************************************)
\* re.sub(r'[^\x00-\x7F]+', ' ', text)
\* the slip of leaving out the '+': one space for every non-ASCII character
clean_text_per_char(text) ==
    [i \in 1..Len(text) |-> IF text[i] > AsciiMax THEN SPACE ELSE text[i]]

clean_text(text) == re_sub("non_ascii", <<SPACE>>, text)

(***************************************************************************)
(* The fixed tables.  Every string is written as its code points, with the *)
(* text in the comment at the end of the line.                             *)
(***************************************************************************)
KEY_CLAUSES == <<
    <<99, 111, 110, 102, 105, 100, 101, 110, 116, 105, 97, 108, 105, 116, 121>>,   \* confidentiality
    <<116, 101, 114, 109, 105, 110, 97, 116, 105, 111, 110>>,   \* termination
    <<105, 110, 100, 101, 109, 110, 105, 116, 121>>,   \* indemnity
    <<108, 105, 97, 98, 105, 108, 105, 116, 121>>,   \* liability
    <<103, 111, 118, 101, 114, 110, 105, 110, 103, 32, 108, 97, 119>>,   \* governing law
    <<106, 117, 114, 105, 115, 100, 105, 99, 116, 105, 111, 110>>,   \* jurisdiction
    <<112, 97, 121, 109, 101, 110, 116>>,   \* payment
    <<105, 110, 116, 101, 108, 108, 101, 99, 116, 117, 97, 108, 32, 112, 114, 111, 112, 101, 114, 116, 121>>,   \* intellectual property
    <<119, 97, 114, 114, 97, 110, 116, 121>>,   \* warranty
    <<100, 97, 116, 97, 32, 112, 114, 111, 116, 101, 99, 116, 105, 111, 110>>,   \* data protection
    <<102, 111, 114, 99, 101, 32, 109, 97, 106, 101, 117, 114, 101>>,   \* force majeure
    <<97, 115, 115, 105, 103, 110, 109, 101, 110, 116>>,   \* assignment
    <<110, 111, 110, 45, 99, 111, 109, 112, 101, 116, 101>>,   \* non-compete
    <<100, 105, 115, 112, 117, 116, 101, 32, 114, 101, 115, 111, 108, 117, 116, 105, 111, 110>>,   \* dispute resolution
    <<112, 114, 105, 118, 97, 99, 121>>    \* privacy
>>

\* the dict of lists, in its insertion order
RISK_KEYWORDS == <<
    [lvl |-> "high", kwlist |-> <<
        <<110, 111, 32, 108, 105, 97, 98, 105, 108, 105, 116, 121>>,   \* no liability
        <<115, 111, 108, 101, 32, 114, 101, 109, 101, 100, 121>>,   \* sole remedy
        <<101, 120, 99, 108, 117, 115, 105, 118, 101, 32, 114, 101, 109, 101, 100, 121>>,   \* exclusive remedy
        <<108, 105, 113, 117, 105, 100, 97, 116, 101, 100, 32, 100, 97, 109, 97, 103, 101, 115>>,   \* liquidated damages
        <<112, 101, 110, 97, 108, 116, 121>>,   \* penalty
        <<105, 114, 114, 101, 118, 111, 99, 97, 98, 108, 101>>    \* irrevocable
    >>],
    [lvl |-> "medium", kwlist |-> <<
        <<105, 110, 100, 101, 109, 110, 105, 102, 121>>,   \* indemnify
        <<116, 104, 105, 114, 100, 32, 112, 97, 114, 116, 121>>,   \* third party
        <<108, 105, 109, 105, 116, 97, 116, 105, 111, 110, 115, 32, 111, 102, 32, 108, 105, 97, 98, 105, 108, 105, 116, 121>>,   \* limitations of liability
        <<99, 97, 112, 32, 111, 110, 32, 108, 105, 97, 98, 105, 108, 105, 116, 121>>,   \* cap on liability
        <<98, 114, 101, 97, 99, 104>>    \* breach
    >>],
    [lvl |-> "low", kwlist |-> <<
        <<103, 111, 118, 101, 114, 110, 105, 110, 103, 32, 108, 97, 119>>,   \* governing law
        <<106, 117, 114, 105, 115, 100, 105, 99, 116, 105, 111, 110>>,   \* jurisdiction
        <<110, 111, 116, 105, 99, 101>>,   \* notice
        <<116, 101, 114, 109>>,   \* term
        <<112, 97, 121, 109, 101, 110, 116>>    \* payment
    >>]
>>

\* the f-string prefixes of the reason strings
HighPrefix == <<72, 105, 103, 104, 45, 114, 105, 115, 107, 32, 107, 101, 121, 119, 111, 114, 100, 58, 32, 34>>   \* High-risk keyword: "
MediumPrefix == <<77, 101, 100, 105, 117, 109, 45, 114, 105, 115, 107, 32, 107, 101, 121, 119, 111, 114, 100, 58, 32, 34>>   \* Medium-risk keyword: "
LowPrefix == <<76, 111, 119, 45, 114, 105, 115, 107, 32, 107, 101, 121, 119, 111, 114, 100, 58, 32, 34>>   \* Low-risk keyword: "

OVERALL_KEY == <<111, 118, 101, 114, 97, 108, 108, 95, 114, 105, 115, 107, 95, 115, 99, 111, 114, 101>>   \* overall_risk_score

(***************************************************************************)
(* split_into_clauses                                                      *)
(***************************************************************************)
\* the slip of keeping the pieces as they are: [p for p in pieces if p.strip()]
strip_nonblank_untrimmed(pieces) ==
    SelectSeq(pieces, LAMBDA p : strip(p) # <<>>)

\* [p.strip() for p in pieces if p.strip()]
strip_nonblank(pieces) ==
    LET kept == SelectSeq(pieces, LAMBDA p : strip(p) # <<>>)
    IN  [i \in 1..Len(kept) |-> strip(kept[i])]

\* the loop over parts: the non-blank stripped pieces between the headings of
\* each part, appended in order
RECURSIVE heading_blocks(_, _)
heading_blocks(parts, k) ==
    IF k > Len(parts) THEN <<>>
    ELSE strip_nonblank(re_split("heading", parts[k])) \o heading_blocks(parts, k + 1)

\* the clauses list before the `if not clauses` fallback
blank_line_path(text) ==
    heading_blocks(strip_nonblank(re_split("blank_line", text)), 1)

split_into_clauses(text) ==
    IF blank_line_path(text) # <<>> THEN blank_line_path(text)
    ELSE re_split("sentence_gap", text)

(***************************************************************************)
(* find_key_clauses                                                        *)
(***************************************************************************)
\* key in c or any(word in c for word in key.split())
key_matches(key, c) ==
    \/ Contains(c, key)
    \/ LET words == split_ws(key, 1)
       IN  \E w \in 1..Len(words) : Contains(c, words[w])

\* the slip of recording the lower-cased block: {'index': i, 'text': c}
key_match_list_lowered(key, clauses, lc_clauses) ==
    LET hit == SelectSeq([i \in 1..Len(clauses) |-> i],
                         LAMBDA i : key_matches(key, lc_clauses[i]))
    IN  [k \in 1..Len(hit) |-> [index |-> hit[k] - 1, text |-> lc_clauses[hit[k]]]]

\* the matches list of one key: {'index': i, 'text': clauses[i]}, i from 0
key_match_list(key, clauses, lc_clauses) ==
    LET hit == SelectSeq([i \in 1..Len(clauses) |-> i],
                         LAMBDA i : key_matches(key, lc_clauses[i]))
    IN  [k \in 1..Len(hit) |-> [index |-> hit[k] - 1, text |-> clauses[hit[k]]]]

\* the dict found: only the keys whose matches list is not empty
find_key_clauses(clauses) ==
    LET lc_clauses == [i \in 1..Len(clauses) |-> lower(clauses[i])]
        all == [k \in 1..Len(KEY_CLAUSES) |->
                   key_match_list(KEY_CLAUSES[k], clauses, lc_clauses)]
        hits == {k \in 1..Len(KEY_CLAUSES) : all[k] # <<>>}
    IN  [key \in {KEY_CLAUSES[k] : k \in hits} |->
            all[CHOOSE k \in hits : KEY_CLAUSES[k] = key]]

(***************************************************************************)
(* simple_summary                                                          *)
(***************************************************************************)
\* Counter(words)[w], and freq.get(w, 0)
freq(words, w) == Cardinality({i \in 1..Len(words) : words[i] = w})

RECURSIVE sum_freq(_, _, _)
sum_freq(words, s_words, k) ==
    IF k > Len(s_words) THEN 0
    ELSE freq(words, s_words[k]) + sum_freq(words, s_words, k + 1)

\* the score of sentence s against the words of the whole text
sentence_score(words, s) == sum_freq(words, findall_words(lower(s), 1), 1)

\* the slip of an unstable sort: an element goes before the elements already
\* placed that have its score
insert_desc_unstable(placed, x) ==
    LET p == Cardinality({i \in 1..Len(placed) : placed[i][1] > x[1]})
    IN  SubSeq(placed, 1, p) \o <<x>> \o SubSeq(placed, p + 1, Len(placed))

\* sorted(scores, key=lambda x: x[0], reverse=True): a stable sort, so an
\* element goes after every element already placed whose score is >= its own
insert_desc(placed, x) ==
    LET p == Cardinality({i \in 1..Len(placed) : placed[i][1] >= x[1]})
    IN  SubSeq(placed, 1, p) \o <<x>> \o SubSeq(placed, p + 1, Len(placed))

RECURSIVE sorted_desc(_, _)
sorted_desc(scores, k) ==
    IF k = 0 THEN <<>> ELSE insert_desc(sorted_desc(scores, k - 1), scores[k])

DefaultNumSentences == 5

simple_summary(text, num_sentences) ==
    LET sentences == re_split("sentence_gap", text)
        words == findall_words(lower(text), 1)
        scores == [i \in 1..Len(sentences) |->
                      <<sentence_score(words, sentences[i]), sentences[i]>>]
        top == SubSeq(sorted_desc(scores, Len(scores)), 1, num_sentences)
    IN  IF Len(sentences) <= num_sentences THEN join(<<SPACE>>, sentences)
        ELSE join(<<SPACE>>, [i \in 1..Len(top) |-> top[i][2]])

(***************************************************************************)
(* analyze_risks                                                           *)
(***************************************************************************)
HighWeight == 3
MediumWeight == 2
LowWeight == 1

\* the (lvl, kw) pairs in the order the two nested loops visit them
RECURSIVE keyword_pairs(_)
keyword_pairs(t) ==
    IF t > Len(RISK_KEYWORDS) THEN <<>>
    ELSE [i \in 1..Len(RISK_KEYWORDS[t].kwlist) |->
             [lvl |-> RISK_KEYWORDS[t].lvl, kw |-> RISK_KEYWORDS[t].kwlist[i]]]
         \o keyword_pairs(t + 1)

\* the slip of exchanging the weights of the high and the medium tier
level_weight_swapped(lvl) ==
    IF lvl = "high" THEN MediumWeight ELSE IF lvl = "medium" THEN HighWeight ELSE LowWeight

level_weight(lvl) ==
    IF lvl = "high" THEN HighWeight ELSE IF lvl = "medium" THEN MediumWeight ELSE LowWeight

\* f'High-risk keyword: "{kw}"' and its two siblings
reason_string(lvl, kw) ==
    (IF lvl = "high" THEN HighPrefix ELSE IF lvl = "medium" THEN MediumPrefix ELSE LowPrefix)
        \o kw \o <<QUOTE>>

\* score and reasons after the first n pairs have been tried on lc_text,
\* which is clause_text.lower()
RECURSIVE scan_keywords(_, _, _)
scan_keywords(lc_text, pairs, n) ==
    IF n = 0 THEN [score |-> 0, reasons |-> <<>>]
    ELSE LET before == scan_keywords(lc_text, pairs, n - 1)
         IN  IF Contains(lc_text, pairs[n].kw)
             THEN [score |-> before.score + level_weight(pairs[n].lvl),
                   reasons |-> Append(before.reasons,
                                      reason_string(pairs[n].lvl, pairs[n].kw))]
             ELSE before

\* report[key]; list(set(reasons)) has no defined order, so it is a set
risk_entry(matches) ==
    LET clause_text == join(<<SPACE>>, [i \in 1..Len(matches) |-> matches[i].text])
        pairs == keyword_pairs(1)
        scanned == scan_keywords(lower(clause_text), pairs, Len(pairs))
    IN  [score |-> scanned.score,
         reasons |-> {scanned.reasons[i] : i \in 1..Len(scanned.reasons)},
         text |-> clause_text]

RECURSIVE sum_scores(_, _)
sum_scores(found_clauses, k) ==
    IF k > Len(KEY_CLAUSES) THEN 0
    ELSE (IF KEY_CLAUSES[k] \in DOMAIN found_clauses
          THEN risk_entry(found_clauses[KEY_CLAUSES[k]]).score ELSE 0)
         + sum_scores(found_clauses, k + 1)

\* the dict report: one entry per found key, and the key overall_risk_score
analyze_risks(found_clauses) ==
    [key \in DOMAIN found_clauses \cup {OVERALL_KEY} |->
        IF key = OVERALL_KEY THEN sum_scores(found_clauses, 1)
        ELSE risk_entry(found_clauses[key])]

(***************************************************************************)
(* build_compliance_checklist                                              *)
(***************************************************************************)
build_compliance_checklist(found_clauses) ==
    [k \in 1..Len(KEY_CLAUSES) |->
        [item |-> KEY_CLAUSES[k],
         present |-> /\ KEY_CLAUSES[k] \in DOMAIN found_clauses
                     /\ Len(found_clauses[KEY_CLAUSES[k]]) > 0,
         notes |-> <<>>]]

(***************************************************************************)
(* The inputs of the model.                                                *)
(***************************************************************************)
\* the sequences of at most n elements of T
SeqsUpTo(T, n) == UNION {[1..k -> T] : k \in 0..n}

\* ''.join(pieces)
RECURSIVE concat(_)
concat(pieces) == IF pieces = <<>> THEN <<>> ELSE pieces[1] \o concat(Tail(pieces))

\* extracted texts of SpecNorm: NUL, tab, newline, space, 'A', DEL and three
\* characters outside ASCII
NormChars == {0, 9, 10, 32, 65, 127, 128, 233, 20013}

\* texts of SpecSeg are made of these tokens
SegTokens == {
    <<65>>,   \* "A"
    <<98>>,   \* "b"
    <<58>>,   \* ":"
    <<10>>,   \* "\n"
    <<32>>,   \* " "
    <<46>>,   \* "."
    <<83, 101, 99, 116, 105, 111, 110, 32, 49>>    \* "Section 1"
}

\* texts of SpecSum are made of these tokens
SumTokens == {
    <<97>>,   \* "a"
    <<65, 32, 97>>,   \* "A a"
    <<97, 97>>,   \* "aa"
    <<46, 32>>,   \* ". "
    <<63, 10>>    \* "?\n"
}

\* documents of SpecApp are made of these paragraphs, joined by a blank line
Paragraphs == {
    <<67, 111, 110, 102, 105, 100, 101, 110, 116, 105, 97, 108, 105, 116, 121, 58, 32, 66, 111, 116, 104, 32, 112, 97, 114, 116, 105, 101, 115, 32, 97, 103, 114, 101, 101, 32, 116, 111, 32, 107, 101, 101, 112, 32, 116, 101, 114, 109, 115, 32, 115, 101, 99, 114, 101, 116, 46>>,   \* "Confidentiality: Both parties agree to keep terms secret."
    <<84, 101, 114, 109, 105, 110, 97, 116, 105, 111, 110, 58, 32, 69, 105, 116, 104, 101, 114, 32, 112, 97, 114, 116, 121, 32, 109, 97, 121, 32, 116, 101, 114, 109, 105, 110, 97, 116, 101, 32, 119, 105, 116, 104, 32, 51, 48, 32, 100, 97, 121, 115, 32, 110, 111, 116, 105, 99, 101, 46>>,   \* "Termination: Either party may terminate with 30 days notice."
    <<80, 97, 121, 109, 101, 110, 116, 58, 32, 84, 104, 101, 32, 112, 101, 110, 97, 108, 116, 121, 32, 105, 115, 32, 97, 32, 112, 101, 110, 97, 108, 116, 121, 46, 32, 78, 111, 32, 76, 105, 97, 98, 105, 108, 105, 116, 121, 32, 102, 111, 114, 32, 98, 114, 101, 97, 99, 104, 32, 111, 102, 32, 112, 97, 121, 109, 101, 110, 116, 32, 116, 101, 114, 109, 115, 46>>,   \* "Payment: The penalty is a penalty. No Liability for breach of payment terms."
    <<83, 101, 99, 116, 105, 111, 110, 32, 50, 46, 49, 32, 45, 32, 71, 111, 118, 101, 114, 110, 105, 110, 103, 32, 108, 97, 119, 32, 97, 110, 100, 32, 112, 97, 121, 109, 101, 110, 116, 32, 116, 101, 114, 109, 115, 10, 78, 111, 116, 105, 99, 101, 58, 32, 99, 97, 102, 233, 32, 108, 97, 119>>,   \* "Section 2.1 - Governing law and payment terms\nNotice: caf\xe9 law"
    <<32, 32, 32>>    \* "   "
}

\* texts handed to hf_summarize in SpecHF
HFTexts == {
    <<>>,   \* ""
    <<97, 46, 32, 98, 46, 32, 99, 46, 32, 100, 46, 32, 101, 46, 32, 102, 46>>,   \* "a. b. c. d. e. f."
    <<98, 46, 32, 97, 32, 97, 46, 32, 99, 46, 32, 97, 32, 97, 32, 97, 46, 32, 100, 46, 32, 101, 46, 32, 97, 46>>,   \* "b. a a. c. a a a. d. e. a."
    <<67, 111, 110, 102, 105, 100, 101, 110, 116, 105, 97, 108, 105, 116, 121, 58, 32, 66, 111, 116, 104, 32, 112, 97, 114, 116, 105, 101, 115, 32, 97, 103, 114, 101, 101, 32, 116, 111, 32, 107, 101, 101, 112, 32, 116, 101, 114, 109, 115, 32, 115, 101, 99, 114, 101, 116, 46>>,   \* "Confidentiality: Both parties agree to keep terms secret."
    <<110, 111, 32, 112, 117, 110, 99, 116, 117, 97, 116, 105, 111, 110>>    \* "no punctuation"
}

\* what the external model may return as out[0]['summary_text']
ModelOutputs == {
    <<>>,   \* ""
    <<65, 32, 115, 117, 109, 109, 97, 114, 121, 46>>,   \* "A summary."
    <<65, 110, 111, 116, 104, 101, 114, 46>>    \* "Another."
}

BlankLine == <<NL, NL>>

\* the slider of the sidebar: st.slider(..., 3, 10, 5)
SliderMin == 3
SliderMax == 10
SliderDefault == 5

ScenarioA == <<67, 111, 110, 102, 105, 100, 101, 110, 116, 105, 97, 108, 105, 116, 121, 58, 32, 66, 111, 116, 104, 32, 112, 97, 114, 116, 105, 101, 115, 32, 97, 103, 114, 101, 101, 32, 116, 111, 32, 107, 101, 101, 112, 32, 116, 101, 114, 109, 115, 32, 115, 101, 99, 114, 101, 116, 46>> \o BlankLine \o
             <<84, 101, 114, 109, 105, 110, 97, 116, 105, 111, 110, 58, 32, 69, 105, 116, 104, 101, 114, 32, 112, 97, 114, 116, 121, 32, 109, 97, 121, 32, 116, 101, 114, 109, 105, 110, 97, 116, 101, 32, 119, 105, 116, 104, 32, 51, 48, 32, 100, 97, 121, 115, 32, 110, 111, 116, 105, 99, 101, 46>>

(***************************************************************************)
(* The state of one process.                                               *)
(***************************************************************************)
VARIABLES
    pc,                     \* where the script (or the caller) stands
    extracted,              \* raw_text as extract_text returned it
    raw_text,               \* raw_text after clean_text
    clauses,                \* the list of text blocks
    found,                  \* the dict of find_key_clauses
    summary,                \* the summary string
    risk_report,            \* the dict of analyze_risks after the pop
    overall,                \* the popped overall_risk_score
    checklist,              \* the list of build_compliance_checklist
    use_hf,                 \* the sidebar checkbox
    num_summary_sentences,  \* the sidebar slider, or the caller's argument
    HF_AVAILABLE,           \* whether `from transformers import pipeline` worked
    SUMMARIZER,             \* the global handle: None or a pipeline
    pipelines,              \* how many pipelines have been constructed so far
    hf_outcome,             \* how the hf_summarize call of this run ended
    raised,                 \* whether the last hf_summarize call raised
    calls                   \* hf_summarize calls made so far

vars == <<pc, extracted, raw_text, clauses, found, summary, risk_report, overall,
          checklist, use_hf, num_summary_sentences, HF_AVAILABLE, SUMMARIZER,
          pipelines, hf_outcome, raised, calls>>

None == 0       \* SUMMARIZER = None; a pipeline is a handle 1, 2, ...

results == <<clauses, found, summary, risk_report, overall, checklist>>
hf_state == <<SUMMARIZER, pipelines, hf_outcome, raised>>
settings == <<use_hf, num_summary_sentences, HF_AVAILABLE, calls>>

\* the state when the module has been loaded and nothing has been computed
Loaded ==
    /\ clauses = <<>>
    /\ found = <<>>
    /\ summary = <<>>
    /\ risk_report = <<>>
    /\ overall = 0
    /\ checklist = <<>>
    /\ SUMMARIZER = None
    /\ pipelines = 0
    /\ hf_outcome = "not_called"
    /\ raised = FALSE
    /\ calls = 0

(***************************************************************************)
(* hf_summarize.  construct_ok and invoke_ok say whether pipeline(...) and *)
(* SUMMARIZER(...) return rather than raise, out is the model's summary.   *)
(***************************************************************************)
\* the slip of calling SUMMARIZER outside a try: a failing invocation raises
hf_summarize_unguarded(text, construct_ok, invoke_ok, out) ==
    IF ~HF_AVAILABLE
    THEN /\ summary' = simple_summary(text, DefaultNumSentences)
         /\ hf_outcome' = "unavailable"
         /\ raised' = FALSE
         /\ UNCHANGED <<SUMMARIZER, pipelines>>
    ELSE IF SUMMARIZER = None /\ ~construct_ok
    THEN /\ summary' = simple_summary(text, DefaultNumSentences)
         /\ hf_outcome' = "construct_failed"
         /\ raised' = FALSE
         /\ UNCHANGED <<SUMMARIZER, pipelines>>
    ELSE /\ IF SUMMARIZER = None
            THEN SUMMARIZER' = pipelines + 1 /\ pipelines' = pipelines + 1
            ELSE UNCHANGED <<SUMMARIZER, pipelines>>
         /\ IF invoke_ok
            THEN summary' = out /\ hf_outcome' = "ok" /\ raised' = FALSE
            ELSE UNCHANGED summary /\ hf_outcome' = "invoke_failed" /\ raised' = TRUE

hf_summarize(text, construct_ok, invoke_ok, out) ==
    /\ raised' = FALSE
    /\ IF ~HF_AVAILABLE
       THEN /\ summary' = simple_summary(text, DefaultNumSentences)
            /\ hf_outcome' = "unavailable"
            /\ UNCHANGED <<SUMMARIZER, pipelines>>
       ELSE IF SUMMARIZER = None /\ ~construct_ok
       THEN /\ summary' = simple_summary(text, DefaultNumSentences)
            /\ hf_outcome' = "construct_failed"
            /\ UNCHANGED <<SUMMARIZER, pipelines>>
       ELSE /\ IF SUMMARIZER = None
               THEN SUMMARIZER' = pipelines + 1 /\ pipelines' = pipelines + 1
               ELSE UNCHANGED <<SUMMARIZER, pipelines>>
            /\ IF invoke_ok
               THEN summary' = out /\ hf_outcome' = "ok"
               ELSE /\ summary' = simple_summary(text, DefaultNumSentences)
                    /\ hf_outcome' = "invoke_failed"

(***************************************************************************)
(* The script body after an upload, one action per step.                   *)
(***************************************************************************)
\* raw_text = clean_text(raw_text)
DoClean ==
    /\ pc = "extracted"
    /\ raw_text' = clean_text(extracted)
    /\ pc' = "cleaned"
    /\ UNCHANGED <<extracted, results, hf_state, settings>>

\* clauses = split_into_clauses(raw_text)
DoSplit ==
    /\ pc = "cleaned"
    /\ clauses' = split_into_clauses(raw_text)
    /\ pc' = "split"
    /\ UNCHANGED <<extracted, raw_text, found, summary, risk_report, overall,
                   checklist, hf_state, settings>>

\* found = find_key_clauses(clauses)
DoFind ==
    /\ pc = "split"
    /\ found' = find_key_clauses(clauses)
    /\ pc' = "found"
    /\ UNCHANGED <<extracted, raw_text, clauses, summary, risk_report, overall,
                   checklist, hf_state, settings>>

\* if use_hf and HF_AVAILABLE: hf_summarize(...) else: simple_summary(...)
DoSummary ==
    /\ pc = "found"
    /\ IF use_hf /\ HF_AVAILABLE
       THEN /\ \E construct_ok \in BOOLEAN, invoke_ok \in BOOLEAN,
                     out \in ModelOutputs :
                       hf_summarize(raw_text, construct_ok, invoke_ok, out)
            /\ calls' = calls + 1
       ELSE /\ summary' = simple_summary(raw_text, num_summary_sentences)
            /\ UNCHANGED <<hf_state, calls>>
    /\ pc' = "summarized"
    /\ UNCHANGED <<extracted, raw_text, clauses, found, risk_report, overall,
                   checklist, use_hf, num_summary_sentences, HF_AVAILABLE>>

\* risk_report = analyze_risks(found); overall = risk_report.pop(...)
DoRisks ==
    /\ pc = "summarized"
    /\ LET report == analyze_risks(found)
       IN  /\ overall' = report[OVERALL_KEY]
           /\ risk_report' = [key \in DOMAIN report \ {OVERALL_KEY} |-> report[key]]
    /\ pc' = "risked"
    /\ UNCHANGED <<extracted, raw_text, clauses, found, summary, checklist,
                   hf_state, settings>>

\* checklist = build_compliance_checklist(found)
DoChecklist ==
    /\ pc = "risked"
    /\ checklist' = build_compliance_checklist(found)
    /\ pc' = "done"
    /\ UNCHANGED <<extracted, raw_text, clauses, found, summary, risk_report,
                   overall, hf_state, settings>>

(***************************************************************************)
(* Callers of single functions.                                            *)
(***************************************************************************)
\* summary = simple_summary(text, N)
CallSimpleSummary ==
    /\ pc = "call"
    /\ summary' = simple_summary(raw_text, num_summary_sentences)
    /\ pc' = "returned"
    /\ UNCHANGED <<extracted, raw_text, clauses, found, risk_report, overall,
                   checklist, hf_state, settings>>

\* lines 211-212 of one run of the script, on the text of its upload: the box
\* is ticked and transformers was imported, so summary = hf_summarize(raw_text)
CallHfSummarize ==
    /\ pc = "loaded"
    /\ use_hf /\ HF_AVAILABLE
    /\ \E text \in HFTexts, construct_ok \in BOOLEAN, invoke_ok \in BOOLEAN,
          out \in ModelOutputs :
            /\ raw_text' = text
            /\ extracted' = text
            /\ hf_summarize(text, construct_ok, invoke_ok, out)
    /\ calls' = calls + 1
    /\ pc' = "summarized"
    /\ UNCHANGED <<clauses, found, risk_report, overall, checklist, use_hf,
                   num_summary_sentences, HF_AVAILABLE>>

\* lines 211, 213-214 of one run of the script: the box is not ticked or
\* transformers is missing, so hf_summarize is not called and
\* summary = simple_summary(raw_text, num_sentences=num_summary_sentences)
SkipHfSummarize ==
    /\ pc = "loaded"
    /\ ~(use_hf /\ HF_AVAILABLE)
    /\ \E text \in HFTexts :
            /\ raw_text' = text
            /\ extracted' = text
            /\ summary' = simple_summary(text, num_summary_sentences)
    /\ pc' = "summarized"
    /\ UNCHANGED <<clauses, found, risk_report, overall, checklist, hf_state,
                   settings>>

\* the next interaction of the user: the host runs the script again from its
\* top in the same process, so line 158 `SUMMARIZER = None` is executed again
\* (the pipeline built by the run before is dropped) and the sidebar widgets
\* of lines 183-185 are read again; no hf_summarize call of this run yet
RerunScript ==
    /\ pc = "summarized"
    /\ calls < MaxCalls
    /\ SUMMARIZER' = None
    /\ hf_outcome' = "not_called"
    /\ raised' = FALSE
    /\ use_hf' \in BOOLEAN
    /\ num_summary_sentences' \in {SliderMin, SliderDefault}
    /\ pc' = "loaded"
    /\ UNCHANGED <<extracted, raw_text, results, pipelines, HF_AVAILABLE, calls>>

(***************************************************************************)
(* The specifications.                                                     *)
(***************************************************************************)
\* the normaliser on short texts with control and non-ASCII characters
InitNorm ==
    /\ Loaded
    /\ pc = "extracted"
    /\ extracted \in SeqsUpTo(NormChars, MaxNormLen)
    /\ raw_text = extracted
    /\ use_hf = FALSE
    /\ num_summary_sentences = SliderDefault
    /\ HF_AVAILABLE = FALSE

NextNorm == DoClean

SpecNorm == InitNorm /\ [][NextNorm]_vars

\* the normaliser and the segmenter on texts made of heading, newline, space
\* and punctuation tokens
InitSeg ==
    /\ Loaded
    /\ pc = "extracted"
    /\ \E toks \in SeqsUpTo(SegTokens, MaxSegToks) : extracted = concat(toks)
    /\ raw_text = extracted
    /\ use_hf = FALSE
    /\ num_summary_sentences = SliderDefault
    /\ HF_AVAILABLE = FALSE

NextSeg == DoClean \/ DoSplit

SpecSeg == InitSeg /\ [][NextSeg]_vars

\* simple_summary on texts of a few short sentences
InitSum ==
    /\ Loaded
    /\ pc = "call"
    /\ \E toks \in SeqsUpTo(SumTokens, MaxSumToks) : extracted = concat(toks)
    /\ raw_text = extracted
    /\ use_hf = FALSE
    /\ num_summary_sentences \in 1..MaxN
    /\ HF_AVAILABLE = FALSE

NextSum == CallSimpleSummary

SpecSum == InitSum /\ [][NextSum]_vars

\* one run of the script on an uploaded document
InitApp ==
    /\ Loaded
    /\ pc = "extracted"
    /\ \E paras \in SeqsUpTo(Paragraphs, MaxParas) : extracted = join(BlankLine, paras)
    /\ raw_text = extracted
    /\ use_hf \in BOOLEAN
    /\ num_summary_sentences \in {SliderMin, SliderDefault, SliderMax}
    /\ HF_AVAILABLE \in BOOLEAN

NextApp == DoClean \/ DoSplit \/ DoFind \/ DoSummary \/ DoRisks \/ DoChecklist

SpecApp == InitApp /\ [][NextApp]_vars

\* a process in which the script is run again and again, each run executing
\* line 158 and then the summary selection of lines 211-214
InitHF ==
    /\ Loaded
    /\ pc = "loaded"
    /\ extracted = <<>>
    /\ raw_text = <<>>
    /\ use_hf \in BOOLEAN
    /\ num_summary_sentences \in {SliderMin, SliderDefault}
    /\ HF_AVAILABLE \in BOOLEAN

NextHF == CallHfSummarize \/ SkipHfSummarize \/ RerunScript

SpecHF == InitHF /\ [][NextHF]_vars

Init == InitApp
Next == NextApp
Spec == SpecApp

(***************************************************************************)
(* Vocabulary of the properties.                                           *)
(***************************************************************************)
Confidentiality == KEY_CLAUSES[1]
Termination == KEY_CLAUSES[2]
BlockA1 == <<66, 111, 116, 104, 32, 112, 97, 114, 116, 105, 101, 115, 32, 97, 103, 114, 101, 101, 32, 116, 111, 32, 107, 101, 101, 112, 32, 116, 101, 114, 109, 115, 32, 115, 101, 99, 114, 101, 116, 46>>   \* "Both parties agree to keep terms secret."
BlockA2 == <<69, 105, 116, 104, 101, 114, 32, 112, 97, 114, 116, 121, 32, 109, 97, 121, 32, 116, 101, 114, 109, 105, 110, 97, 116, 101, 32, 119, 105, 116, 104, 32, 51, 48, 32, 100, 97, 121, 115, 32, 110, 111, 116, 105, 99, 101, 46>>   \* "Either party may terminate with 30 days notice."

AfterFind == {"found", "summarized", "risked", "done"}
AfterRisks == {"risked", "done"}

IsBlank(s) == \A i \in 1..Len(s) : s[i] \in SpaceChars

\* the blocks occur in text one after the other, without overlap, from index from on
RECURSIVE InOrder(_, _, _)
InOrder(text, blocks, from) ==
    \/ blocks = <<>>
    \/ \E p \in from..(Len(text) - Len(blocks[1]) + 1) :
          /\ SubSeq(text, p, p + Len(blocks[1]) - 1) = blocks[1]
          /\ InOrder(text, Tail(blocks), p + Len(blocks[1]))

NoBlankLine(text) == \A i \in 1..(Len(text) - 1) : ~(text[i] = NL /\ text[i + 1] = NL)
NoPunctuation(text) == \A i \in 1..Len(text) : text[i] \notin SentenceEnd
NoHeading(text) == \A i \in 1..Len(text) : HeadingEnd(text, i) = 0

\* how many times needle occurs in hay
Occurrences(hay, needle) ==
    Cardinality({i \in 1..(Len(hay) - Len(needle) + 1) :
                    \A k \in 1..Len(needle) : hay[i + k - 1] = needle[k]})

\* the keywords of one tier, as a set
Keywords(lvl) ==
    UNION {{RISK_KEYWORDS[t].kwlist[i] : i \in 1..Len(RISK_KEYWORDS[t].kwlist)} :
              t \in {u \in 1..Len(RISK_KEYWORDS) : RISK_KEYWORDS[u].lvl = lvl}}

\* the keywords of one tier that occur in the lower-cased text
KeywordsIn(lvl, text) == {kw \in Keywords(lvl) : Contains(lower(text), kw)}

\* the lower-cased space-joined matched text of a category
MatchedText(key) == join(<<SPACE>>, [i \in 1..Len(found[key]) |-> found[key][i].text])

\* the sentences of raw_text and their frequency scores
Sentences == re_split("sentence_gap", raw_text)
Scores ==
    LET words == findall_words(lower(raw_text), 1)
        sentences == Sentences
    IN  [i \in 1..Len(sentences) |-> sentence_score(words, sentences[i])]
\* the place of sentence i by descending score, earlier sentences first on ties
Rank(score, i) == 1 + Cardinality({j \in 1..Len(score) :
                                      \/ score[j] > score[i]
                                      \/ score[j] = score[i] /\ j < i})
\* the sentences in the order of their places
Ranked(score) == [k \in 1..Len(score) |-> CHOOSE i \in 1..Len(score) : Rank(score, i) = k]

\* text with the first character of every maximal non-ASCII run turned into a
\* space and the rest of the run dropped
RunsToSpaces(text) ==
    LET kept == SelectSeq([i \in 1..Len(text) |-> i],
                          LAMBDA i : text[i] <= AsciiMax \/ i = 1 \/ text[i - 1] <= AsciiMax)
    IN  [k \in 1..Len(kept) |->
            IF text[kept[k]] <= AsciiMax THEN text[kept[k]] ELSE SPACE]

PrintableAscii == 32..126

FailedOutcomes == {"unavailable", "construct_failed", "invoke_failed"}

(***************************************************************************)
(* The properties.                                                         *)
(***************************************************************************)
\* C1: on scenario A the segmenter yields exactly the two heading-stripped
\* blocks, and the classifier maps "confidentiality" to exactly one block and
\* "termination" to exactly one block.
C1_ScenarioA ==
    (extracted = ScenarioA /\ pc \in AfterFind) =>
        /\ clauses = <<BlockA1, BlockA2>>
        /\ Confidentiality \in DOMAIN found /\ Len(found[Confidentiality]) = 1
        /\ Termination \in DOMAIN found /\ Len(found[Termination]) = 1

\* C2: for every non-empty text no block of split_into_clauses is empty or
\* whitespace-only, and the blocks appear in the order of the text.
C2_NoBlankBlock ==
    (pc = "split" /\ raw_text # <<>>) =>
        /\ \A i \in 1..Len(clauses) : ~IsBlank(clauses[i])
        /\ InOrder(raw_text, clauses, 1)

\* C3: for the empty text split_into_clauses returns no block, the classifier
\* returns the empty mapping, the risk report has no category and an overall
\* score of 0, and the checklist marks every category as not present.
C3_EmptyInput ==
    (extracted = <<>> /\ pc = "done") =>
        /\ clauses = <<>>
        /\ found = <<>>
        /\ risk_report = <<>>
        /\ overall = 0
        /\ \A k \in 1..Len(checklist) : ~checklist[k].present

\* C4 as stated: for a text with no blank line and no sentence punctuation the
\* blank-line/heading path yields 0 blocks, and the result is exactly one
\* block holding the whole text.
C4_AlwaysFallback ==
    (pc = "split" /\ NoBlankLine(raw_text) /\ NoPunctuation(raw_text)) =>
        /\ blank_line_path(raw_text) = <<>>
        /\ clauses = <<raw_text>>

\* C4 amended: for a text with no blank line and no sentence punctuation, the
\* result is exactly one block holding the whole text when the text is empty
\* or whitespace-only or its trimmed form leaves nothing but headings, the
\* only cases in which the blank-line/heading path yields 0 blocks; otherwise
\* the result is what the blank-line/heading path yields from the trimmed text:
\* exactly one block holding the trimmed text when it has no heading token.
C4_FallbackOnlyWhenNoBlock ==
    (pc = "split" /\ NoBlankLine(raw_text) /\ NoPunctuation(raw_text)) =>
        LET trimmed == strip(raw_text)
            pieces == strip_nonblank(re_split("heading", trimmed))
        IN  /\ (trimmed = <<>> \/ pieces = <<>>) <=> (blank_line_path(raw_text) = <<>>)
            /\ (trimmed = <<>> \/ pieces = <<>>) => clauses = <<raw_text>>
            /\ (trimmed # <<>> /\ pieces # <<>>) => clauses = pieces
            /\ (trimmed # <<>> /\ NoHeading(trimmed)) => clauses = <<trimmed>>

C4_Witness ==
    /\ pc = "split" /\ NoBlankLine(raw_text) /\ NoPunctuation(raw_text)
    /\ strip(raw_text) # raw_text
    /\ strip(raw_text) # <<>>
    /\ clauses = <<strip(raw_text)>>

\* C5: the mapping of find_key_clauses has only keys of KEY_CLAUSES, no empty
\* match list, and every match list is in strictly increasing block index with
\* each text equal to the original block at that index.
C5_FoundWellFormed ==
    (pc \in AfterFind) =>
        \A key \in DOMAIN found :
            /\ \E k \in 1..Len(KEY_CLAUSES) : key = KEY_CLAUSES[k]
            /\ Len(found[key]) >= 1
            /\ \A m \in 1..Len(found[key]) :
                  /\ found[key][m].index \in 0..(Len(clauses) - 1)
                  /\ found[key][m].text = clauses[found[key][m].index + 1]
                  /\ m > 1 => found[key][m - 1].index < found[key][m].index

C5_Witness ==
    /\ pc = "found"
    /\ \E key \in DOMAIN found :
          /\ Len(found[key]) = 2
          /\ found[key][2].text # lower(found[key][2].text)
    /\ Cardinality(DOMAIN found) < Len(KEY_CLAUSES)

\* C6: the score of every category of the risk report is 3 times the number of
\* distinct high-tier keywords plus 2 times the number of distinct medium-tier
\* keywords plus the number of distinct low-tier keywords that occur in the
\* lower-cased space-joined matched text, however often each occurs.
C6_ScoreIsWeightedCount ==
    (pc \in AfterRisks) =>
        /\ DOMAIN risk_report = DOMAIN found
        /\ \A key \in DOMAIN risk_report :
              /\ risk_report[key].text = MatchedText(key)
              /\ risk_report[key].score =
                      3 * Cardinality(KeywordsIn("high", MatchedText(key)))
                    + 2 * Cardinality(KeywordsIn("medium", MatchedText(key)))
                    + 1 * Cardinality(KeywordsIn("low", MatchedText(key)))

C6_Witness ==
    /\ pc = "risked"
    /\ \E key \in DOMAIN risk_report :
          /\ \E kw \in KeywordsIn("high", MatchedText(key)) :
                Occurrences(lower(MatchedText(key)), kw) >= 2
          /\ KeywordsIn("medium", MatchedText(key)) # {}
          /\ KeywordsIn("low", MatchedText(key)) # {}

\* C7: simple_summary(text, N) is all sentences joined by single spaces in
\* their order when there are at most N of them, and otherwise the N sentences
\* of highest score, by descending score and in original order on equal
\* scores, joined in that order.
C7_SummaryByRank ==
    (pc = "returned") =>
        LET sentences == Sentences
            ranked == Ranked(Scores)
        IN  IF Len(sentences) <= num_summary_sentences
            THEN summary = join(<<SPACE>>, sentences)
            ELSE summary = join(<<SPACE>>,
                                [k \in 1..num_summary_sentences |-> sentences[ranked[k]]])

C7_Witness ==
    /\ pc = "returned"
    /\ num_summary_sentences = 2
    /\ Len(Sentences) = 3
    /\ Ranked(Scores)[1] > Ranked(Scores)[2]
    /\ summary = Sentences[Ranked(Scores)[1]] \o <<SPACE>> \o Sentences[Ranked(Scores)[2]]

\* C8 as stated: clean_text(t) has only printable ASCII characters, and every
\* maximal non-ASCII run of t is replaced by one space, the ASCII characters
\* kept in order.
C8_OnlyPrintable ==
    (pc = "cleaned") =>
        /\ \A i \in 1..Len(raw_text) : raw_text[i] \in PrintableAscii
        /\ raw_text = RunsToSpaces(extracted)

\* C8 amended: clean_text(t) has only ASCII characters (code points 0 to 127,
\* the control characters among them kept as they are), and every maximal
\* non-ASCII run of t is replaced by one space, the ASCII characters kept in
\* order.
C8_OnlyAscii ==
    (pc = "cleaned") =>
        /\ \A i \in 1..Len(raw_text) : raw_text[i] \in 0..AsciiMax
        /\ raw_text = RunsToSpaces(extracted)

C8_Witness ==
    /\ pc = "cleaned"
    /\ \E i \in 1..(Len(extracted) - 1) :
          extracted[i] > AsciiMax /\ extracted[i + 1] > AsciiMax
    /\ \E i \in 1..Len(extracted) : extracted[i] = 0
    /\ Len(raw_text) < Len(extracted)

\* C9: a call of hf_summarize in which the external summarizer fails (library
\* unavailable, pipeline construction raises, pipeline invocation raises)
\* raises nothing and returns simple_summary of the same text.
C9_FailureFallsBack ==
    (hf_outcome \in FailedOutcomes) =>
        /\ ~raised
        /\ summary = simple_summary(raw_text, DefaultNumSentences)

C9_Witness ==
    /\ hf_outcome = "invoke_failed"
    /\ Len(Sentences) > DefaultNumSentences
    /\ summary # <<>>
    /\ summary # raw_text
    /\ ~raised

\* C10: over the hf_summarize calls of one process SUMMARIZER is created at
\* most once: it starts as None, stays None after a failed construction, is
\* set at most once, and once set is never constructed again or reset,
\* whatever the later calls do.
C10_HandleStep ==
    /\ SUMMARIZER # None => (SUMMARIZER' = SUMMARIZER /\ pipelines' = pipelines)
    /\ hf_outcome' = "construct_failed" => SUMMARIZER' = None
    /\ SUMMARIZER' # SUMMARIZER => (SUMMARIZER = None /\ pipelines' = pipelines + 1)
    /\ pipelines' <= 1

C10_CreatedAtMostOnce ==
    /\ SUMMARIZER = None
    /\ pipelines = 0
    /\ [][C10_HandleStep]_vars

====
